---------------------------- MODULE Spec2Model ----------------------------
(***************************************************************************)
(* A model of the falling-block game of src/src/main.rs: the Grid, the     *)
(* Piece and its rotations, the MovingPiece, and the GameState with its    *)
(* two handlers, update (one iteration of its loop is one tick) and        *)
(* key_down_event.                                                         *)
(***************************************************************************)
EXTENDS Integers, Sequences, FiniteSets, TLC

(***************************************************************************)
(* Bounds.  The source plays on a 10 x 20 board with a period of 18 ticks; *)
(* the model keeps the code and scales these three numbers down, and it    *)
(* bounds the number of pieces spawned and the presses of SoftDrop that    *)
(* may accumulate in the timer.  A board narrower than 5 would put a cell  *)
(* of the freshly spawned bar outside the board, which the 10 columns of   *)
(* the source never do.                                                    *)
(***************************************************************************)
GAME_GRID_WIDTH == 5

GAME_GRID_HEIGHT == 4

FRAMES_PER_MOVE == 2

\* Spec: the pieces spawned in one game, and the colours get_random draws.
MaxPieces == 2

ShapeDraws == {1, 5}

\* SpecLines: a longer game of bars only, in which one lock clears up to
\* four rows.
MaxPiecesLines == 5

LineDraws == {1}

\* SoftDrop is pressed only while the timer stays within MaxFrames.
MaxFrames == 3

\* SpecRotate: the number of rotations applied to one piece.
MaxRotations == 4

\* SpecTimer: a game of squares that are only dropped, with every press of
\* SoftDrop allowed, so that the timer runs through the whole of its type.
MaxPiecesTimer == 1

TimerDraws == {5}

(***************************************************************************)
(* Program constants.                                                      *)
(***************************************************************************)
NUM_COLOURS == 7

EMPTY == 255

U8_MAX == 255

VARIABLES
    grid,         \* GameState.grid.grid: row index -> column index -> cell
    gameover,     \* GameState.gameover
    move_frames,  \* GameState.move_frames (u8)
    score,        \* GameState.score (u32; a game of MaxPieces pieces stays far below 2^32)
    next_piece,   \* GameState.next_piece
    cur_piece,    \* GameState.cur_piece: <<>> is None, <<mp>> is Some(mp)
    panicked,     \* the process aborted (arithmetic overflow, unimplemented!())
    spawned,      \* history: the number of pieces spawned so far
    last,         \* history: the last operation, its outcome and its count
    hist          \* history of the pure-function specifications

vars == <<grid, gameover, move_frames, score, next_piece, cur_piece,
          panicked, spawned, last, hist>>

state == <<grid, gameover, move_frames, score, next_piece, cur_piece>>

Rows == 0 .. (GAME_GRID_HEIGHT - 1)

Cols == 0 .. (GAME_GRID_WIDTH - 1)

(***************************************************************************)
(* Pos.  The coordinates are i8 in the source; a piece stays within two     *)
(* cells of the board, so no coordinate comes near the ends of the type.   *)
(***************************************************************************)
Pos_new(x, y) == [x |-> x, y |-> y]

(***************************************************************************)
(* Grid                                                                    *)
(***************************************************************************)
EmptyRow == [x \in Cols |-> EMPTY]

Grid_new == [y \in Rows |-> EmptyRow]

\* (c as usize) < NUM_COLOURS
IsLocked(c) == c < NUM_COLOURS

\* self.grid.get(pos.y as usize).and_then(|row| row.get(pos.x as usize)):
\* a negative coordinate cast to usize is out of range.
InBounds(pos) == pos.y \in Rows /\ pos.x \in Cols

RowDone(g, y) == \A x \in Cols : IsLocked(g[y][x])

\* Mutant: the rows copied from the top down, so that each copy reads a row
\* the loop has already overwritten.
check_for_line_grid_TopDown(g, y) ==
    IF RowDone(g, y)
    THEN [r \in Rows |-> IF r = 0 THEN EmptyRow
                          ELSE IF r <= y THEN g[0]
                          ELSE g[r]]
    ELSE g

\* The grid after check_for_line(y).
check_for_line_grid(g, y) ==
    IF RowDone(g, y)
    THEN [r \in Rows |-> IF r = 0 THEN EmptyRow
                          ELSE IF r <= y THEN g[r - 1]
                          ELSE g[r]]
    ELSE g

\* Mutant: check_for_line reporting a complete row without removing it.
check_for_line_NoShift(g, y) == [done |-> RowDone(g, y), grid |-> g]

check_for_line(g, y) == [done |-> RowDone(g, y), grid |-> check_for_line_grid(g, y)]

\* Mutant: is_free_or_above without the test of the cell.
is_free_or_above_BoundsOnly(g, pos) ==
    IF InBounds(pos)
    THEN TRUE
    ELSE pos.y < 0 /\ 0 <= pos.x /\ pos.x < GAME_GRID_WIDTH

is_free_or_above(g, pos) ==
    IF InBounds(pos)
    THEN ~IsLocked(g[pos.y][pos.x])
    ELSE pos.y < 0 /\ 0 <= pos.x /\ pos.x < GAME_GRID_WIDTH

\* Grid::set: the grid after the call and the value returned.
set(g, pos, c) ==
    IF InBounds(pos)
    THEN [ok |-> TRUE, grid |-> [g EXCEPT ![pos.y][pos.x] = c]]
    ELSE [ok |-> FALSE, grid |-> g]

(***************************************************************************)
(* Piece                                                                   *)
(***************************************************************************)
Offsets(colour) ==
    CASE colour = 0 -> <<Pos_new(-1, -1), Pos_new(0, -1), Pos_new(1, -1), Pos_new(-1, 0)>>
      [] colour = 1 -> <<Pos_new(-1, 0), Pos_new(0, 0), Pos_new(1, 0), Pos_new(2, 0)>>
      [] colour = 2 -> <<Pos_new(-1, -1), Pos_new(0, -1), Pos_new(1, -1), Pos_new(0, 0)>>
      [] colour = 3 -> <<Pos_new(0, -1), Pos_new(1, -1), Pos_new(-1, 0), Pos_new(0, 0)>>
      [] colour = 4 -> <<Pos_new(-1, -1), Pos_new(0, -1), Pos_new(0, 0), Pos_new(1, 0)>>
      [] colour = 5 -> <<Pos_new(-1, -1), Pos_new(0, -1), Pos_new(-1, 0), Pos_new(0, 0)>>
      [] colour = 6 -> <<Pos_new(-1, -1), Pos_new(0, -1), Pos_new(1, -1), Pos_new(1, 0)>>

\* Piece::get_random, given the number the generator drew.
get_random(colour) == [colour |-> colour, offsets |-> Offsets(colour)]

rotate_left(piece) ==
    [piece EXCEPT !.offsets =
        [i \in 1..4 |-> Pos_new(piece.offsets[i].y, -piece.offsets[i].x)]]

\* Mutant: rotate_right with the body of rotate_left.
rotate_right_AsLeft(piece) ==
    [piece EXCEPT !.offsets =
        [i \in 1..4 |-> Pos_new(piece.offsets[i].y, -piece.offsets[i].x)]]

rotate_right(piece) ==
    [piece EXCEPT !.offsets =
        [i \in 1..4 |-> Pos_new(-piece.offsets[i].y, piece.offsets[i].x)]]

\* The four absolute positions, in the enumeration order of the offsets.
points(piece, offset) ==
    [i \in 1..4 |-> Pos_new(offset.x + piece.offsets[i].x, offset.y + piece.offsets[i].y)]

(***************************************************************************)
(* MovingPiece                                                             *)
(***************************************************************************)
\* Mutant: the piece placed on row 0 of the board.
MovingPiece_new_AtTop(piece) ==
    [pos |-> Pos_new(GAME_GRID_WIDTH \div 2, 0), piece |-> piece]

MovingPiece_new(piece) ==
    [pos |-> Pos_new(GAME_GRID_WIDTH \div 2, -2), piece |-> piece]

(***************************************************************************)
(* Machine arithmetic: an addition that overflows aborts the process in a  *)
(* build with overflow checks and wraps in a build without them.           *)
(***************************************************************************)
AddOutcomes(a, b, max) ==
    IF a + b <= max
    THEN {[v |-> a + b, panic |-> FALSE]}
    ELSE {[v |-> a, panic |-> TRUE], [v |-> (a + b) % (max + 1), panic |-> FALSE]}

(***************************************************************************)
(* GameState                                                               *)
(***************************************************************************)
Moves == {"Left", "Right", "RotLeft", "RotRight"}

\* The candidate new_mp of GameState::mv.
Candidate(mp, m) ==
    CASE m = "Left" -> [mp EXCEPT !.pos.x = @ - 1]
      [] m = "Right" -> [mp EXCEPT !.pos.x = @ + 1]
      [] m = "RotLeft" -> [mp EXCEPT !.piece = rotate_left(@)]
      [] m = "RotRight" -> [mp EXCEPT !.piece = rotate_right(@)]

AllFree(g, mp) ==
    \A i \in 1..4 : is_free_or_above(g, points(mp.piece, mp.pos)[i])

\* Mutant: GameState::mv without the loop that rejects the candidate.
mv_Unchecked(g, cp, m) ==
    IF cp = <<>> THEN cp ELSE <<Candidate(cp[1], m)>>

\* GameState::mv: the value of cur_piece after the call.
mv(g, cp, m) ==
    IF cp = <<>> THEN cp
    ELSE IF AllFree(g, Candidate(cp[1], m)) THEN <<Candidate(cp[1], m)>>
    ELSE cp

\* GameState::move_down: the outcomes of move_frames += FRAMES_PER_MOVE / 2.
move_down(mf) == AddOutcomes(mf, FRAMES_PER_MOVE \div 2, U8_MAX)

\* Mutant: the timer block comparing with >= in place of >.
TimerStep_AtPeriod(mf1) ==
    IF mf1 >= FRAMES_PER_MOVE
    THEN [move_frames |-> mf1 - FRAMES_PER_MOVE, move_frame |-> TRUE]
    ELSE [move_frames |-> mf1, move_frame |-> FALSE]

\* Mutant: the timer block never reporting that a move is due.
TimerStep_NeverDue(mf1) ==
    IF mf1 > FRAMES_PER_MOVE
    THEN [move_frames |-> mf1 - FRAMES_PER_MOVE, move_frame |-> FALSE]
    ELSE [move_frames |-> mf1, move_frame |-> FALSE]

\* The timer block of update: move_frames after it and the flag move_frame.
TimerStep(mf1) ==
    IF mf1 > FRAMES_PER_MOVE
    THEN [move_frames |-> mf1 - FRAMES_PER_MOVE, move_frame |-> TRUE]
    ELSE [move_frames |-> mf1, move_frame |-> FALSE]

\* Mutant: the writing loop without its break.
RECURSIVE LockFrom_NoBreak(_, _, _, _, _)
LockFrom_NoBreak(g, pts, c, i, ls) ==
    IF i > 4 THEN [grid |-> g, out_of_bounds |-> FALSE, line_set |-> ls]
    ELSE LET rest == LockFrom_NoBreak(set(g, pts[i], c).grid, pts, c, i + 1,
                                      ls \cup {pts[i].y})
         IN [rest EXCEPT !.out_of_bounds = @ \/ ~set(g, pts[i], c).ok]

\* The loop of update that writes the piece: cell i onwards, stopping at the
\* first cell that Grid::set refuses.
RECURSIVE LockFrom(_, _, _, _, _)
LockFrom(g, pts, c, i, ls) ==
    IF i > 4 THEN [grid |-> g, out_of_bounds |-> FALSE, line_set |-> ls]
    ELSE IF set(g, pts[i], c).ok
         THEN LockFrom(set(g, pts[i], c).grid, pts, c, i + 1, ls \cup {pts[i].y})
         ELSE [grid |-> g, out_of_bounds |-> TRUE, line_set |-> ls \cup {pts[i].y}]

LockWrites(g, mp) == LockFrom(g, points(mp.piece, mp.pos), mp.piece.colour, 1, {})

\* Mutant: the touched rows visited from the bottom up.
RECURSIVE Ascending_Reversed(_)
Ascending_Reversed(S) ==
    IF S = {} THEN <<>>
    ELSE LET m == CHOOSE a \in S : \A b \in S : a >= b
         IN <<m>> \o Ascending_Reversed(S \ {m})

\* The iteration order of a BTreeSet<i8>: ascending.
RECURSIVE Ascending(_)
Ascending(S) ==
    IF S = {} THEN <<>>
    ELSE LET m == CHOOSE a \in S : \A b \in S : a <= b
         IN <<m>> \o Ascending(S \ {m})

\* Mutant: the loop over the touched rows left at the first row cleared.
RECURSIVE ClearLines_FirstOnly(_, _)
ClearLines_FirstOnly(g, ys) ==
    IF ys = <<>> THEN [grid |-> g, num_cleared |-> 0]
    ELSE LET r == check_for_line(g, Head(ys))
         IN IF r.done THEN [grid |-> r.grid, num_cleared |-> 1]
            ELSE ClearLines_FirstOnly(r.grid, Tail(ys))

\* for y in line_set { if self.grid.check_for_line(y) { num_cleared += 1 } }
RECURSIVE ClearLines(_, _)
ClearLines(g, ys) ==
    IF ys = <<>> THEN [grid |-> g, num_cleared |-> 0]
    ELSE LET r == check_for_line(g, Head(ys))
             rest == ClearLines(r.grid, Tail(ys))
         IN [grid |-> rest.grid,
             num_cleared |-> rest.num_cleared + (IF r.done THEN 1 ELSE 0)]

\* Mutant: the score match with the points of one row and of two rows swapped.
ScoreFor_Swapped(n) ==
    CASE n = 0 -> 0
      [] n = 1 -> 100
      [] n = 2 -> 40
      [] n = 3 -> 300
      [] n = 4 -> 1200
      [] OTHER -> -1

\* Mutant: the score match without its arm for four rows.
ScoreFor_NoFour(n) ==
    CASE n = 0 -> 0
      [] n = 1 -> 40
      [] n = 2 -> 100
      [] n = 3 -> 300
      [] OTHER -> -1

\* The score match of update; more than four rows reach unimplemented!().
ScoreFor(n) ==
    CASE n = 0 -> 0
      [] n = 1 -> 40
      [] n = 2 -> 100
      [] n = 3 -> 300
      [] n = 4 -> 1200
      [] OTHER -> -1

\* GameState::new, the generator drawing from draws.
InitOf(draws) ==
    /\ grid = Grid_new
    /\ gameover = FALSE
    /\ \E c \in draws : next_piece = get_random(c)
    /\ cur_piece = <<>>
    /\ move_frames = 0
    /\ score = 0
    /\ panicked = FALSE
    /\ spawned = 0
    /\ last = [op |-> "new", res |-> "new", n |-> 0]
    /\ hist = <<>>

Abort(op) ==
    /\ panicked' = TRUE
    /\ last' = [op |-> op, res |-> "panic", n |-> 0]
    /\ UNCHANGED <<state, spawned, hist>>

\* The body of update after the timer block, move_frame being its flag.
TickBody(move_frame, draws, budget) ==
    IF gameover
    THEN /\ last' = [op |-> "Tick", res |-> "over", n |-> 0]
         /\ UNCHANGED <<grid, gameover, score, next_piece, cur_piece, panicked, spawned>>
    ELSE IF cur_piece = <<>>
    THEN /\ spawned < budget
         /\ \E c \in draws : next_piece' = get_random(c)
         /\ cur_piece' = <<MovingPiece_new(next_piece)>>
         /\ spawned' = spawned + 1
         /\ last' = [op |-> "Tick", res |-> "spawn", n |-> 0]
         /\ UNCHANGED <<grid, gameover, score, panicked>>
    ELSE IF ~move_frame
    THEN /\ last' = [op |-> "Tick", res |-> "wait", n |-> 0]
         /\ UNCHANGED <<grid, gameover, score, next_piece, cur_piece, panicked, spawned>>
    ELSE LET mp == cur_piece[1]
             new_pos == Pos_new(mp.pos.x, mp.pos.y + 1)
             can_move_down ==
                 \A i \in 1..4 : is_free_or_above(grid, points(mp.piece, new_pos)[i])
         IN IF can_move_down
            THEN /\ cur_piece' = <<[mp EXCEPT !.pos = new_pos]>>
                 /\ last' = [op |-> "Tick", res |-> "fall", n |-> 0]
                 /\ UNCHANGED <<grid, gameover, score, next_piece, panicked, spawned>>
            ELSE \E w \in {LockWrites(grid, mp)} :
                 IF w.out_of_bounds
                 THEN /\ grid' = w.grid
                      /\ gameover' = TRUE
                      /\ last' = [op |-> "Tick", res |-> "fail", n |-> 0]
                      /\ UNCHANGED <<score, next_piece, cur_piece, panicked, spawned>>
                 ELSE \E ys \in {Ascending(w.line_set)} :
                      \E cl \in {ClearLines(w.grid, ys)} :
                      IF ScoreFor(cl.num_cleared) < 0
                      THEN /\ grid' = cl.grid
                           /\ cur_piece' = <<>>
                           /\ panicked' = TRUE
                           /\ last' = [op |-> "Tick", res |-> "unimplemented",
                                       n |-> cl.num_cleared]
                           /\ UNCHANGED <<gameover, score, next_piece, spawned>>
                      ELSE /\ grid' = cl.grid
                           /\ cur_piece' = <<>>
                           /\ score' = score + ScoreFor(cl.num_cleared)
                           /\ last' = [op |-> "Tick", res |-> "lock", n |-> cl.num_cleared]
                           /\ UNCHANGED <<gameover, next_piece, panicked, spawned>>

\* One iteration of the loop of update.
TickOf(draws, budget) ==
    /\ ~panicked
    /\ hist' = hist
    /\ \E t \in AddOutcomes(move_frames, 1, U8_MAX) :
         IF t.panic THEN Abort("Tick")
         ELSE /\ move_frames' = TimerStep(t.v).move_frames
              /\ TickBody(TimerStep(t.v).move_frame, draws, budget)

\* Mutant: key_down_event without its game-over return.
KeyIgnored_NoReturn == FALSE

\* if self.gameover { return Ok(()) } of key_down_event.
KeyIgnored == gameover

\* key_down_event for a key of the match (any other key changes nothing).
KeyDown(key) ==
    /\ ~panicked
    /\ hist' = hist
    /\ IF KeyIgnored
       THEN /\ last' = [op |-> key, res |-> "over", n |-> 0]
            /\ UNCHANGED <<state, panicked, spawned>>
       ELSE IF key \in Moves
       THEN /\ cur_piece' = mv(grid, cur_piece, key)
            /\ last' = [op |-> key,
                        res |-> IF cur_piece = <<>> THEN "none"
                                ELSE IF AllFree(grid, Candidate(cur_piece[1], key))
                                     THEN "applied" ELSE "rejected",
                        n |-> 0]
            /\ UNCHANGED <<grid, gameover, move_frames, score, next_piece,
                           panicked, spawned>>
       ELSE \E t \in move_down(move_frames) :
                IF t.panic THEN Abort(key)
                ELSE /\ move_frames' = t.v
                     /\ last' = [op |-> key, res |-> "ok", n |-> 0]
                     /\ UNCHANGED <<grid, gameover, score, next_piece, cur_piece,
                                    panicked, spawned>>

Init == InitOf(ShapeDraws)

Tick == TickOf(ShapeDraws, MaxPieces)

MoveLeft == KeyDown("Left")

MoveRight == KeyDown("Right")

RotateLeft == KeyDown("RotLeft")

RotateRight == KeyDown("RotRight")

\* SoftDrop, while the presses accumulated in the timer stay within MaxFrames.
SoftDrop ==
    /\ move_frames + FRAMES_PER_MOVE \div 2 <= MaxFrames
    /\ KeyDown("SoftDrop")

Next ==
    \/ Tick
    \/ MoveLeft
    \/ MoveRight
    \/ RotateLeft
    \/ RotateRight
    \/ SoftDrop

Spec == Init /\ [][Next]_vars

\* The event loop calls update on every frame, whatever keys are pressed.
SpecFair == Spec /\ WF_vars(Tick)

(***************************************************************************)
(* SpecLines: the same game, the generator drawing bars only.              *)
(***************************************************************************)
InitLines == InitOf(LineDraws)

TickLines == TickOf(LineDraws, MaxPiecesLines)

NextLines ==
    \/ TickLines
    \/ MoveLeft
    \/ MoveRight
    \/ RotateLeft
    \/ RotateRight
    \/ SoftDrop

SpecLines == InitLines /\ [][NextLines]_vars

(***************************************************************************)
(* SpecTimer: ticks and presses of SoftDrop only, the presses unbounded.   *)
(***************************************************************************)
InitTimer == InitOf(TimerDraws)

TickTimer == TickOf(TimerDraws, MaxPiecesTimer)

SoftDropAny == KeyDown("SoftDrop")

NextTimer ==
    \/ TickTimer
    \/ SoftDropAny

SpecTimer == InitTimer /\ [][NextTimer]_vars

(***************************************************************************)
(* SpecRotate: Piece::rotate_left and Piece::rotate_right applied to each  *)
(* of the seven pieces of get_random.  hist holds the piece as drawn and   *)
(* then one entry per rotation: which one, and the piece it produced.      *)
(***************************************************************************)
InitRotate ==
    /\ grid = Grid_new
    /\ gameover = FALSE
    /\ \E c \in 0 .. (NUM_COLOURS - 1) : next_piece = get_random(c)
    /\ cur_piece = <<>>
    /\ move_frames = 0
    /\ score = 0
    /\ panicked = FALSE
    /\ spawned = 0
    /\ last = [op |-> "new", res |-> "new", n |-> 0]
    /\ hist = <<[op |-> "new", piece |-> next_piece]>>

Rotate(op, piece) ==
    /\ Len(hist) <= MaxRotations
    /\ next_piece' = piece
    /\ hist' = Append(hist, [op |-> op, piece |-> piece])
    /\ last' = [op |-> op, res |-> "ok", n |-> 0]
    /\ UNCHANGED <<grid, gameover, move_frames, score, cur_piece, panicked, spawned>>

DoRotateLeft == Rotate("rotate_left", rotate_left(next_piece))

DoRotateRight == Rotate("rotate_right", rotate_right(next_piece))

NextRotate ==
    \/ DoRotateLeft
    \/ DoRotateRight

SpecRotate == InitRotate /\ [][NextRotate]_vars

(***************************************************************************)
(* SpecCheckLine: Grid::check_for_line applied to grids built from a few   *)
(* kinds of row: empty, completely locked in one colour or in several, and *)
(* locked but for one cell.                                                *)
(***************************************************************************)
RowSamples ==
    { EmptyRow,
      [x \in Cols |-> 0],
      [x \in Cols |-> x % NUM_COLOURS],
      [x \in Cols |-> IF x = 0 THEN 3 ELSE EMPTY],
      [x \in Cols |-> IF x = GAME_GRID_WIDTH - 1 THEN EMPTY ELSE 6] }

InitCheckLine ==
    /\ grid \in [Rows -> RowSamples]
    /\ gameover = FALSE
    /\ next_piece = get_random(0)
    /\ cur_piece = <<>>
    /\ move_frames = 0
    /\ score = 0
    /\ panicked = FALSE
    /\ spawned = 0
    /\ last = [op |-> "new", res |-> "new", n |-> 0]
    /\ hist = <<>>

CheckLine(y) ==
    /\ grid' = check_for_line(grid, y).grid
    /\ last' = [op |-> "check_for_line",
                res |-> IF check_for_line(grid, y).done THEN "true" ELSE "false",
                n |-> y]
    /\ UNCHANGED <<gameover, move_frames, score, next_piece, cur_piece,
                   panicked, spawned, hist>>

NextCheckLine == \E y \in Rows : CheckLine(y)

SpecCheckLine == InitCheckLine /\ [][NextCheckLine]_vars

(***************************************************************************)
(* Properties.                                                             *)
(***************************************************************************)
Keys == Moves \cup {"SoftDrop"}

\* C1: game-over is terminal: once the game-over flag is true, every later
\* tick and every later input command leaves it true and leaves the grid,
\* the score and the active piece (position and offsets) as they are.
C1_GameOverTerminal ==
    [][gameover =>
          /\ gameover'
          /\ grid' = grid
          /\ score' = score
          /\ cur_piece' = cur_piece]_vars

\* A move command arrived after the game was over, with a piece on the board
\* that the command, were it carried out, would have moved.
C1_Witness ==
    /\ gameover
    /\ last.op = "Left"
    /\ last.res = "over"
    /\ cur_piece # <<>>
    /\ mv(grid, cur_piece, "Left") # cur_piece

\* C2: scoring is exact and monotone: a tick that locks a piece adds exactly
\* 0, 40, 100, 300 or 1200 to the score when the lock cleared 0, 1, 2, 3 or 4
\* rows; every other step (a tick that does not lock, a spawn, a failed lock,
\* any input command) leaves the score as it is; so the score never decreases.
C2_ScoringExact ==
    [][/\ (cur_piece # <<>> /\ cur_piece' = <<>>) <=> (last'.res = "lock")
       /\ IF cur_piece # <<>> /\ cur_piece' = <<>>
          THEN \/ last'.n = 0 /\ score' = score
               \/ last'.n = 1 /\ score' = score + 40
               \/ last'.n = 2 /\ score' = score + 100
               \/ last'.n = 3 /\ score' = score + 300
               \/ last'.n = 4 /\ score' = score + 1200
          ELSE score' = score
       /\ score' >= score]_vars

\* A lock has just cleared one row, after an earlier lock that cleared two.
C2_Witness ==
    /\ last.op = "Tick"
    /\ last.res = "lock"
    /\ last.n = 1
    /\ score = 140

\* C10: no lock clears more than four rows: the number of rows for which
\* check_for_line returned true during one lock is in 0..4, and the
\* unimplemented!() arm of the score match is never reached.
C10_AtMostFourRows ==
    /\ last.n \in 0 .. 4
    /\ last.res # "unimplemented"
    /\ (panicked => last.res = "panic")

\* A lock has just cleared four rows, the most a piece can touch.
C10_Witness ==
    /\ last.op = "Tick"
    /\ last.res = "lock"
    /\ last.n = 4
    /\ ~panicked

\* C3: check_for_line(y) returns true iff every cell of row y is locked; when
\* it does, each row r in 1..y takes the former contents of row r-1, row 0
\* becomes all-empty and every row below y is unchanged; when it returns
\* false the grid is unchanged.
C3_CheckForLine ==
    [][last'.op = "check_for_line" =>
          LET y == last'.n
              full == \A x \in Cols : grid[y][x] \in 0 .. (NUM_COLOURS - 1)
          IN /\ y \in Rows
             /\ (last'.res = "true") <=> full
             /\ IF full
                THEN /\ \A r \in 1 .. y : grid'[r] = grid[r - 1]
                     /\ \A x \in Cols : grid'[0][x] = EMPTY
                     /\ \A r \in Rows : r > y => grid'[r] = grid[r]
                ELSE grid' = grid]_vars

\* check_for_line has just returned true for a row other than the top two, and
\* moved two different non-empty rows down.
C3_Witness ==
    /\ last.op = "check_for_line"
    /\ last.res = "true"
    /\ last.n >= 2
    /\ grid[1] # EmptyRow
    /\ grid[2] # EmptyRow
    /\ grid[1] # grid[2]

\* C8: for each of the 7 pieces, four successive rotate_left calls restore the
\* offsets exactly, rotate_right after rotate_left and rotate_left after
\* rotate_right restore them exactly, and no rotation changes the colour.
C8_Rotations ==
    LET n == Len(hist)
    IN /\ \A i \in 1 .. n : hist[i].piece.colour = hist[1].piece.colour
       /\ \A i \in 1 .. n :
            (i + 4 <= n /\ \A j \in (i + 1) .. (i + 4) : hist[j].op = "rotate_left")
                => hist[i + 4].piece.offsets = hist[i].piece.offsets
       /\ \A i \in 1 .. n :
            (i + 2 <= n /\ {hist[i + 1].op, hist[i + 2].op} = {"rotate_left", "rotate_right"})
                => hist[i + 2].piece.offsets = hist[i].piece.offsets

\* The bar has been rotated left four times, the first of which changed it.
C8_Witness ==
    /\ Len(hist) >= 5
    /\ hist[1].piece.colour = 1
    /\ \A j \in 2 .. 5 : hist[j].op = "rotate_left"
    /\ hist[2].piece.offsets # hist[1].piece.offsets
    /\ next_piece.offsets = Offsets(1)

\* A position a piece may occupy: a column of the board, above the bottom
\* row, and either above the top row or on an empty cell.
FreeCell(g, x, y) ==
    /\ 0 <= x
    /\ x < GAME_GRID_WIDTH
    /\ y < GAME_GRID_HEIGHT
    /\ (y < 0 \/ g[y][x] = EMPTY)

\* The candidate of a move command.
Moved(mp, m) ==
    CASE m = "Left" -> [pos |-> [x |-> mp.pos.x - 1, y |-> mp.pos.y], piece |-> mp.piece]
      [] m = "Right" -> [pos |-> [x |-> mp.pos.x + 1, y |-> mp.pos.y], piece |-> mp.piece]
      [] m = "RotLeft" ->
            [pos |-> mp.pos,
             piece |-> [colour |-> mp.piece.colour,
                        offsets |-> [i \in 1..4 |-> [x |-> mp.piece.offsets[i].y,
                                                     y |-> -mp.piece.offsets[i].x]]]]
      [] m = "RotRight" ->
            [pos |-> mp.pos,
             piece |-> [colour |-> mp.piece.colour,
                        offsets |-> [i \in 1..4 |-> [x |-> -mp.piece.offsets[i].y,
                                                     y |-> mp.piece.offsets[i].x]]]]

CellX(mp, i) == mp.pos.x + mp.piece.offsets[i].x

CellY(mp, i) == mp.pos.y + mp.piece.offsets[i].y

Fits(g, mp) == \A i \in 1..4 : FreeCell(g, CellX(mp, i), CellY(mp, i))

\* C4: a MoveLeft, MoveRight, RotateLeft or RotateRight command is applied
\* only if all four cells of the candidate piece are free or above the board;
\* otherwise the whole game state is as before; in particular MoveLeft with
\* the leftmost cell in column 0 leaves the piece where it is; an accepted
\* command changes only the active piece.
C4_MoveGuarded ==
    [][last'.op \in Moves =>
          /\ grid' = grid
          /\ score' = score
          /\ move_frames' = move_frames
          /\ next_piece' = next_piece
          /\ gameover' = gameover
          /\ panicked' = panicked
          /\ IF ~gameover /\ cur_piece # <<>> /\ Fits(grid, Moved(cur_piece[1], last'.op))
             THEN cur_piece' = <<Moved(cur_piece[1], last'.op)>>
             ELSE cur_piece' = cur_piece
          /\ (/\ last'.op = "Left"
              /\ cur_piece # <<>>
              /\ \E i \in 1..4 : CellX(cur_piece[1], i) = 0)
                => cur_piece' = cur_piece]_vars

\* MoveLeft has just been rejected with the piece's leftmost cell in column 0
\* and the piece partly on the board.
C4_Witness ==
    /\ ~gameover
    /\ cur_piece # <<>>
    /\ last.op = "Left"
    /\ last.res = "rejected"
    /\ \E i \in 1..4 : CellX(cur_piece[1], i) = 0
    /\ \E i \in 1..4 : CellY(cur_piece[1], i) >= 0

\* Whether the step is a tick on which the active piece is due to descend,
\* cannot, and has a cell outside the grid.
RejectedLockStep ==
    /\ last'.op = "Tick"
    /\ ~gameover
    /\ cur_piece # <<>>
    /\ move_frames + 1 > FRAMES_PER_MOVE
    /\ ~Fits(grid, [cur_piece[1] EXCEPT !.pos.y = @ + 1])
    /\ \E i \in 1..4 : ~(/\ CellX(cur_piece[1], i) \in Cols
                         /\ CellY(cur_piece[1], i) \in Rows)

\* The claim C5 as stated: a rejected lock sets game-over and leaves the grid
\* cell for cell as it was, and no later step writes the grid.
C5_RejectedLockWritesNothing ==
    [][/\ RejectedLockStep => (gameover' /\ grid' = grid)
       /\ gameover => grid' = grid]_vars

\* The cells of mp that lie inside the grid and come, in the order of the
\* offsets, before the first cell that lies outside it.
WrittenBeforeReject(mp, x, y) ==
    \E i \in 1..4 :
        /\ CellX(mp, i) = x
        /\ CellY(mp, i) = y
        /\ \A j \in 1..i : CellX(mp, j) \in Cols /\ CellY(mp, j) \in Rows

\* C5, amended: a rejected lock sets game-over and changes the grid only in
\* the cells of the piece that lie inside the grid and are enumerated before
\* its first cell outside the grid, which take the piece's colour; the active
\* piece and the score stay; and no later step writes the grid.
C5_RejectedLockWritesPrefix ==
    [][/\ RejectedLockStep =>
            /\ gameover'
            /\ cur_piece' = cur_piece
            /\ score' = score
            /\ grid' = [y \in Rows |-> [x \in Cols |->
                          IF WrittenBeforeReject(cur_piece[1], x, y)
                          THEN cur_piece[1].piece.colour
                          ELSE grid[y][x]]]
       /\ gameover => grid' = grid]_vars

\* A lock has just been rejected after writing two cells of the piece.
C5_Witness ==
    /\ gameover
    /\ last.op = "Tick"
    /\ last.res = "fail"
    /\ \E i, j \in 1..4 :
          /\ i # j
          /\ \A k \in {i, j} :
                /\ CellX(cur_piece[1], k) \in Cols
                /\ CellY(cur_piece[1], k) \in Rows
                /\ grid[CellY(cur_piece[1], k)][CellX(cur_piece[1], k)]
                      = cur_piece[1].piece.colour

\* The claim C6 as stated: a tick in a game-over state leaves every component
\* of the game state unchanged, the move timer included.
C6_TickNoOpWhenOver ==
    [][(gameover /\ last'.op = "Tick") => state' = state]_vars

\* The claim C7 as stated: with no active piece, every input command,
\* SoftDrop included, leaves the whole game state unchanged, the move timer
\* included.
C7_NoPieceNoInput ==
    [][(cur_piece = <<>> /\ last'.op \in Keys) => state' = state]_vars

\* C9: the game-over flag becomes true on a step if and only if the step is a
\* tick, the game was not over, a piece was active, its descent was due, it
\* could not move one cell down, and a cell of it at its current position
\* was outside the grid, which is then above row 0; so no input command,
\* spawn, descent or successful lock sets the flag.
C9_GameOverOnlyByLock ==
    [][/\ (~gameover /\ gameover') <=> RejectedLockStep
       /\ RejectedLockStep => \E i \in 1..4 : CellY(cur_piece[1], i) < 0
       /\ (~gameover /\ gameover') => \A i \in 1..4 :
              (CellX(cur_piece[1], i) \in Cols /\ CellY(cur_piece[1], i) < GAME_GRID_HEIGHT)]_vars

\* A tick has just set game-over for a piece that is entirely above the board.
C9_Witness ==
    /\ gameover
    /\ last.op = "Tick"
    /\ last.res = "fail"
    /\ \A i \in 1..4 : CellY(cur_piece[1], i) < 0

\* The claim C11: a press of SoftDrop (the game not being over) adds exactly
\* half the period to the move timer and changes nothing else; no input
\* command changes the row of the active piece; and a tick moves the active
\* piece down by at most one row, however many presses came before it.
C11_SoftDropNoTeleport ==
    [][/\ (last'.op = "SoftDrop" /\ ~gameover) =>
             /\ move_frames' = move_frames + FRAMES_PER_MOVE \div 2
             /\ grid' = grid
             /\ gameover' = gameover
             /\ score' = score
             /\ next_piece' = next_piece
             /\ cur_piece' = cur_piece
       /\ (last'.op \in Keys /\ cur_piece # <<>>) =>
             (cur_piece' # <<>> /\ cur_piece'[1].pos.y = cur_piece[1].pos.y)
       /\ (last'.op = "Tick" /\ cur_piece # <<>> /\ cur_piece' # <<>>) =>
             cur_piece'[1].pos.y - cur_piece[1].pos.y \in {0, 1}]_vars

\* The claim C12: on a tick with the game not over and a piece active the
\* timer is incremented by one; when it reaches the period it is reset to zero
\* and a descent of one cell is attempted on that tick; on every other such
\* tick the piece and the grid are unchanged; and a tick that spawns a piece
\* does not advance the timer.
C12_TimerResetAtPeriod ==
    [][/\ (last'.op = "Tick" /\ ~gameover /\ cur_piece # <<>>) =>
             IF move_frames + 1 = FRAMES_PER_MOVE
             THEN /\ move_frames' = 0
                  /\ \/ /\ cur_piece' # <<>>
                        /\ cur_piece'[1].pos.y = cur_piece[1].pos.y + 1
                     \/ ~Fits(grid, [cur_piece[1] EXCEPT !.pos.y = @ + 1])
             ELSE /\ move_frames' = move_frames + 1
                  /\ cur_piece' = cur_piece
                  /\ grid' = grid
       /\ (last'.op = "Tick" /\ ~gameover /\ cur_piece = <<>>) =>
             move_frames' = move_frames]_vars

\* The claim C13: in every reachable state the move timer is at least 0 and at
\* most the period.
C13_TimerWithinPeriod ==
    /\ 0 <= move_frames
    /\ move_frames <= FRAMES_PER_MOVE

\* The claim C19: no addition to the 8-bit move timer exceeds 255, on a press
\* of SoftDrop or on a tick, with a piece or without, and the subtraction of
\* the period never goes below 0.
C19_TimerNeverOverflows ==
    [][/\ last'.op = "SoftDrop" /\ ~gameover =>
             move_frames + FRAMES_PER_MOVE \div 2 <= U8_MAX
       /\ last'.op = "Tick" =>
             /\ move_frames + 1 <= U8_MAX
             /\ (move_frames + 1 > FRAMES_PER_MOVE =>
                     move_frames + 1 - FRAMES_PER_MOVE >= 0)
       /\ ~panicked'
       /\ move_frames' \in 0 .. U8_MAX]_vars

\* A tick that locks the active piece successfully, seen as a step.
LockStep ==
    /\ last'.op = "Tick"
    /\ last'.res = "lock"

\* Every order in which the rows of S can be visited once each.
Orders(S) ==
    {o \in [1 .. Cardinality(S) -> S] : \A i, j \in DOMAIN o : i # j => o[i] # o[j]}

\* The order o visits the completely locked rows of g from the top down.
TopDown(g, o) ==
    \A i, j \in DOMAIN o :
        (i < j /\ RowDone(g, o[i]) /\ RowDone(g, o[j])) => o[i] < o[j]

\* The claim C14: on a lock the grid that results and the number of rows
\* counted as cleared are the same for every order in which check_for_line is
\* applied to the rows the piece touched.
C14_AnyOrder ==
    [][LockStep =>
          LET w == LockWrites(grid, cur_piece[1])
          IN \A o \in Orders(w.line_set) :
                 /\ ClearLines(w.grid, o).grid = grid'
                 /\ ClearLines(w.grid, o).num_cleared = last'.n]_vars

\* C14: on a lock the grid that results and the number of rows counted as
\* cleared are those of every order of the touched rows that visits the
\* completely locked ones among them from the top down, the ascending order of
\* the code being one of these.
C14_TopDownOrders ==
    [][LockStep =>
          LET w == LockWrites(grid, cur_piece[1])
          IN \A o \in Orders(w.line_set) :
                 TopDown(w.grid, o) =>
                     /\ ClearLines(w.grid, o).grid = grid'
                     /\ ClearLines(w.grid, o).num_cleared = last'.n]_vars

\* Three rows were completed by one lock, so that the orders differ.
C14_Witness ==
    /\ last.op = "Tick"
    /\ last.res = "lock"
    /\ last.n = 3

\* The grid g with the four cells of the piece mp set to its colour.
Painted(g, mp) ==
    [y \in Rows |-> [x \in Cols |->
        IF \E i \in 1..4 : CellX(mp, i) = x /\ CellY(mp, i) = y
        THEN mp.piece.colour
        ELSE g[y][x]]]

\* The rows of g that are not completely locked, from the top down.
KeptRows(g) ==
    SelectSeq([i \in 1 .. GAME_GRID_HEIGHT |-> i - 1], LAMBDA y : ~RowDone(g, y))

\* The reference result: the complete rows of g removed, the remaining rows
\* kept in order and moved down, as many empty rows added at the top.
Compacted(g) ==
    LET kept == KeptRows(g)
        removed == GAME_GRID_HEIGHT - Len(kept)
    IN [y \in Rows |-> IF y < removed THEN EmptyRow ELSE g[kept[y - removed + 1]]]

\* C15: a successful lock leaves the grid of the reference result (the four
\* cells of the piece written at its position, every complete row removed,
\* the others moved down in order below new empty rows), counts for the score
\* exactly the rows removed, and leaves no active piece.
C15_LockMatchesReference ==
    [][LockStep =>
          LET p == Painted(grid, cur_piece[1])
          IN /\ grid' = Compacted(p)
             /\ last'.n = GAME_GRID_HEIGHT - Len(KeptRows(p))
             /\ cur_piece' = <<>>]_vars

\* A lock removed two rows and cells of the piece remain, moved down.
C15_Witness ==
    /\ last.op = "Tick"
    /\ last.res = "lock"
    /\ last.n = 2
    /\ cur_piece = <<>>
    /\ grid[GAME_GRID_HEIGHT - 1] # EmptyRow

\* A tick that runs to its end (the process was not aborted in it), as a step.
TickStep ==
    /\ last'.op = "Tick"
    /\ last'.res # "panic"

\* C16: a tick taken when the game is not over and no piece is active makes
\* the previous next piece the active one, unrotated, at column width / 2 and
\* row -2, draws a fresh next piece and changes neither the grid nor the
\* score; so no two consecutive ticks leave the piece absent; and the piece is
\* never absent in a game-over state.
C16_SpawnOnNextTick ==
    /\ [][(TickStep /\ ~gameover /\ cur_piece = <<>>) =>
             /\ cur_piece' =
                    <<[pos |-> [x |-> GAME_GRID_WIDTH \div 2, y |-> -2],
                       piece |-> next_piece]>>
             /\ next_piece.offsets = Offsets(next_piece.colour)
             /\ \E c \in 0 .. NUM_COLOURS - 1 :
                    next_piece' = [colour |-> c, offsets |-> Offsets(c)]
             /\ grid' = grid
             /\ score' = score
             /\ ~gameover']_vars
    /\ [][(TickStep /\ cur_piece = <<>>) => cur_piece' # <<>>]_vars
    /\ [](gameover => cur_piece # <<>>)

\* The second piece has just been spawned over a board that holds the first.
C16_Witness ==
    /\ last.op = "Tick"
    /\ last.res = "spawn"
    /\ spawned = 2
    /\ grid # Grid_new
    /\ cur_piece # <<>>
    /\ cur_piece[1].pos.y = -2

\* C17: while the game is not over and a piece is active, each of its four
\* cells is free or above the board (a column of the board, a row above the
\* floor, and no locked cell there); so a successful lock writes only cells
\* that were empty.
C17_NonOverlap ==
    /\ []((~gameover /\ cur_piece # <<>>) => Fits(grid, cur_piece[1]))
    /\ [][LockStep =>
             \A i \in 1..4 :
                 /\ CellY(cur_piece[1], i) \in Rows
                 /\ CellX(cur_piece[1], i) \in Cols
                 /\ grid[CellY(cur_piece[1], i)][CellX(cur_piece[1], i)] = EMPTY]_vars

\* The active piece has been moved to stand on the board beside a locked cell.
C17_Witness ==
    /\ ~gameover
    /\ cur_piece # <<>>
    /\ last.op \in Moves
    /\ last.res = "applied"
    /\ \E i \in 1..4 :
           /\ CellY(cur_piece[1], i) \in Rows
           /\ CellX(cur_piece[1], i) + 1 \in Cols
           /\ grid[CellY(cur_piece[1], i)][CellX(cur_piece[1], i) + 1] # EMPTY

\* Some row of the grid has every cell locked.
SomeRowFull == \E y \in Rows : \A x \in Cols : grid[y][x] # EMPTY

\* The claim C18: no row of the grid is fully locked in any reachable state,
\* the game-over states included.
C18_NoFullRowEver == ~SomeRowFull

\* C18: no row of the grid is fully locked in any reachable state in which the
\* game is not over.
C18_NoFullRowWhilePlaying == ~gameover => ~SomeRowFull

\* A lock has just removed a complete row and left locked cells behind.
C18_Witness ==
    /\ ~gameover
    /\ last.op = "Tick"
    /\ last.res = "lock"
    /\ last.n = 1
    /\ score = 40
    /\ grid # Grid_new

====
